---- MODULE Spec2Model ----
(***************************************************************************)
(* it2open: commands read from stdin are distributed over a grid           *)
(* (distributeCommands), an AppleScript is generated from a text/template  *)
(* (appleScriptTemplate) and run against iTerm2.  The model executes the   *)
(* layout loop and the template step by step, producing the sequence of    *)
(* operations the script contains, and then replays that sequence against  *)
(* a terminal whose only addressing is "the focused pane".                 *)
(***************************************************************************)
EXTENDS Integers, Sequences, FiniteSets, TLC

MaxN == 5
MaxCols == 3

\* the command lines of stdin are opaque strings
Cmd == {"a", "b"}

VARIABLES
    cmds,      \* run: cmds, the lines of stdin
    cols,      \* run: cols (flag -cols)
    newTab,    \* run: newTab (flag -tab)
    pc,        \* position in run / distributeCommands / template / script
    rows,      \* distributeCommands: rows
    r,         \* distributeCommands: r, the layout; r[c+1][w+1] is Go's r[c][w]
    cellIdx,   \* history: the command indices stored into each cell of r
    i,         \* loop index of the loop being executed ($i, i)
    j,         \* inner loop index of the template ($j)
    out,       \* the operations written to the template's buffer
    term,      \* terminal: columns, left to right, of panes, top to bottom
    focus,     \* terminal: <<column, row>> of the focused pane (1-based)
    rp,        \* position of the script's next operation
    hsplits    \* history: for each replayed horizontal split, the column
               \* loop that emitted it and the column it was applied to

vars == <<cmds, cols, newTab, pc, rows, r, cellIdx, i, j, out, term, focus,
          rp, hsplits>>

n == Len(cmds)

----------------------------------------------------------------------------
(* Operations of the generated script *)

Op(name, cmd, col) == [op |-> name, cmd |-> cmd, col |-> col]

NewTabOp == Op("NewTab", "", -1)
SplitVerticalOp == Op("SplitVertical", "", -1)
\* col: the index $i of the layout column whose loop emitted the split
SplitHorizontalOp(c) == Op("SplitHorizontal", "", c)
FocusNextOp == Op("FocusNext", "", -1)
DelayOp == Op("Delay", "", -1)
WriteTextOp(cmd) == Op("WriteText", cmd, -1)

----------------------------------------------------------------------------
(* funcMap *)

sub(a, b) == a - b

\* until(n) is make([]int, n) filled with 0..n-1; a negative n makes
\* make panic, which fails the template's execution
until(k) == [p \in 1..k |-> p - 1]
untilFails(k) == k < 0

----------------------------------------------------------------------------
(* distributeCommands *)

CeilRows(len, c) == (len + c - 1) \div c

MakeLayout(c, rws) == [x \in 1..c |-> [y \in 1..rws |-> ""]]

CellOfColMajor(k, c, rws) == <<k \div rws, k % rws>>

\* r[i%cols][i/cols]
CellOf(k, c, rws) == <<k % c, k \div c>>

----------------------------------------------------------------------------
(* appleScriptTemplate: the operations of each template fragment *)

NewTabOps(nt) == IF nt THEN <<NewTabOp>> ELSE <<>>

ColOps(k) == IF k > 0 THEN <<SplitVerticalOp>> ELSE <<>>

RowSplitOps(k) == <<DelayOp, SplitHorizontalOp(k), FocusNextOp>>

RowsEndOps == <<FocusNextOp>>

\* the write of the first command repeated for every command
WriteOpsFirst(k) == <<WriteTextOp(cmds[1]), FocusNextOp, DelayOp>>

\* each pane split off right before its command is written
WriteOpsInterleaved(k) ==
    (IF k = 0 THEN <<>>
     ELSE IF k < cols THEN <<SplitVerticalOp>>
     ELSE <<SplitHorizontalOp(k % cols)>>)
    \o <<WriteTextOp(cmds[k + 1]), FocusNextOp, DelayOp>>

WriteOps(k) == <<WriteTextOp(cmds[k + 1]), FocusNextOp, DelayOp>>

----------------------------------------------------------------------------
(* The terminal the script acts on *)

EmptyPane == <<>>
FreshTab == << <<EmptyPane>> >>

InsertAt(s, p, e) == SubSeq(s, 1, p) \o <<e>> \o SubSeq(s, p + 1, Len(s))

\* a new column to the right of the focused one, focus on the new pane
TermSplitVertical(t, f) == InsertAt(t, f[1], <<EmptyPane>>)
FocusAfterSplitVertical(f) == <<f[1] + 1, 1>>

\* a new pane below the focused one, focus on the new pane
TermSplitHorizontal(t, f) == [t EXCEPT ![f[1]] = InsertAt(@, f[2], EmptyPane)]
FocusAfterSplitHorizontal(f) == <<f[1], f[2] + 1>>

\* cyclic, column by column, top to bottom
TermFocusNext(t, f) ==
    IF f[2] < Len(t[f[1]]) THEN <<f[1], f[2] + 1>>
    ELSE IF f[1] < Len(t) THEN <<f[1] + 1, 1>>
    ELSE <<1, 1>>

TermWriteText(t, f, cmd) == [t EXCEPT ![f[1]][f[2]] = Append(@, cmd)]

----------------------------------------------------------------------------
Init ==
    /\ cmds \in UNION {[1..k -> Cmd] : k \in 0..MaxN}
    /\ cols \in 1..MaxCols
    /\ newTab \in BOOLEAN
    /\ pc = "start"
    /\ rows = 0
    /\ r = <<>>
    /\ cellIdx = <<>>
    /\ i = 0
    /\ j = 0
    /\ out = <<>>
    /\ term = FreshTab
    /\ focus = <<1, 1>>
    /\ rp = 1
    /\ hsplits = <<>>

(* distributeCommands, lines 85-89 *)
DistAlloc ==
    /\ pc = "start"
    /\ rows' = CeilRows(n, cols)
    /\ r' = MakeLayout(cols, rows')
    /\ cellIdx' = [x \in 1..cols |-> [y \in 1..rows' |-> {}]]
    /\ i' = 0
    /\ pc' = "dist"
    /\ UNCHANGED <<cmds, cols, newTab, j, out, term, focus, rp, hsplits>>

(* distributeCommands, lines 90-92, one iteration *)
DistStep ==
    /\ pc = "dist"
    /\ i < n
    /\ LET cell == CellOf(i, cols, rows) IN
        /\ r' = [r EXCEPT ![cell[1] + 1][cell[2] + 1] = cmds[i + 1]]
        /\ cellIdx' = [cellIdx EXCEPT ![cell[1] + 1][cell[2] + 1] = @ \cup {i}]
    /\ i' = i + 1
    /\ UNCHANGED <<cmds, cols, newTab, pc, rows, j, out, term, focus, rp, hsplits>>

(* distributeCommands returns; run parses the template and executes it *)
DistDone ==
    /\ pc = "dist"
    /\ i = n
    /\ pc' = "t_newtab"
    /\ UNCHANGED <<cmds, cols, newTab, rows, r, cellIdx, i, j, out, term, focus,
                   rp, hsplits>>

(* template line 149 *)
TmplNewTab ==
    /\ pc = "t_newtab"
    /\ out' = out \o NewTabOps(newTab)
    /\ i' = 0
    /\ pc' = "t_cols"
    /\ UNCHANGED <<cmds, cols, newTab, rows, r, cellIdx, j, term, focus, rp, hsplits>>

(* template lines 151-155, one iteration of range until .Cols *)
TmplColsStep ==
    /\ pc = "t_cols"
    /\ i < Len(until(cols))
    /\ out' = out \o ColOps(until(cols)[i + 1])
    /\ i' = i + 1
    /\ UNCHANGED <<cmds, cols, newTab, pc, rows, r, cellIdx, j, term, focus, rp, hsplits>>

(* template line 156 *)
TmplColsEnd ==
    /\ pc = "t_cols"
    /\ i = Len(until(cols))
    /\ out' = out \o <<DelayOp>>
    /\ i' = 0
    /\ pc' = "t_layout"
    /\ UNCHANGED <<cmds, cols, newTab, rows, r, cellIdx, j, term, focus, rp, hsplits>>

(* template lines 158-159: next $col, evaluating until (sub (len $col) 1) *)
TmplLayoutEnter ==
    /\ pc = "t_layout"
    /\ i < Len(r)
    /\ pc' = IF untilFails(sub(Len(r[i + 1]), 1)) THEN "error" ELSE "t_rows"
    /\ j' = 0
    /\ UNCHANGED <<cmds, cols, newTab, rows, r, cellIdx, i, out, term, focus, rp, hsplits>>

(* template lines 160-162, one iteration of the inner range *)
TmplRowSplit ==
    /\ pc = "t_rows"
    /\ j < Len(until(sub(Len(r[i + 1]), 1)))
    /\ out' = out \o RowSplitOps(i)
    /\ j' = j + 1
    /\ UNCHANGED <<cmds, cols, newTab, pc, rows, r, cellIdx, i, term, focus, rp, hsplits>>

(* template line 164 *)
TmplRowsEnd ==
    /\ pc = "t_rows"
    /\ j = Len(until(sub(Len(r[i + 1]), 1)))
    /\ out' = out \o RowsEndOps
    /\ i' = i + 1
    /\ pc' = "t_layout"
    /\ UNCHANGED <<cmds, cols, newTab, rows, r, cellIdx, j, term, focus, rp, hsplits>>

(* template line 166 *)
TmplLayoutEnd ==
    /\ pc = "t_layout"
    /\ i = Len(r)
    /\ out' = out \o <<DelayOp>>
    /\ i' = 0
    /\ pc' = "t_cmds"
    /\ UNCHANGED <<cmds, cols, newTab, rows, r, cellIdx, j, term, focus, rp, hsplits>>

(* template lines 168-172, one iteration of range .Cmds *)
TmplCmdStep ==
    /\ pc = "t_cmds"
    /\ i < n
    /\ out' = out \o WriteOps(i)
    /\ i' = i + 1
    /\ UNCHANGED <<cmds, cols, newTab, pc, rows, r, cellIdx, j, term, focus, rp, hsplits>>

(* tmpl.Execute returns nil; run hands the script to runAppleScript *)
TmplCmdsEnd ==
    /\ pc = "t_cmds"
    /\ i = n
    /\ rp' = 1
    /\ pc' = "replay"
    /\ UNCHANGED <<cmds, cols, newTab, rows, r, cellIdx, i, j, out, term, focus, hsplits>>

(* the script's operations, executed in order *)
Replaying(name) == pc = "replay" /\ rp <= Len(out) /\ out[rp].op = name

ReplayNewTab ==
    /\ Replaying("NewTab")
    /\ term' = FreshTab
    /\ focus' = <<1, 1>>
    /\ rp' = rp + 1
    /\ UNCHANGED <<cmds, cols, newTab, pc, rows, r, cellIdx, i, j, out, hsplits>>

ReplaySplitVertical ==
    /\ Replaying("SplitVertical")
    /\ term' = TermSplitVertical(term, focus)
    /\ focus' = FocusAfterSplitVertical(focus)
    /\ rp' = rp + 1
    /\ UNCHANGED <<cmds, cols, newTab, pc, rows, r, cellIdx, i, j, out, hsplits>>

ReplaySplitHorizontal ==
    /\ Replaying("SplitHorizontal")
    /\ term' = TermSplitHorizontal(term, focus)
    /\ focus' = FocusAfterSplitHorizontal(focus)
    /\ hsplits' = Append(hsplits, [built |-> out[rp].col, at |-> focus[1] - 1])
    /\ rp' = rp + 1
    /\ UNCHANGED <<cmds, cols, newTab, pc, rows, r, cellIdx, i, j, out>>

ReplayFocusNext ==
    /\ Replaying("FocusNext")
    /\ focus' = TermFocusNext(term, focus)
    /\ rp' = rp + 1
    /\ UNCHANGED <<cmds, cols, newTab, pc, rows, r, cellIdx, i, j, out, term, hsplits>>

ReplayDelay ==
    /\ Replaying("Delay")
    /\ rp' = rp + 1
    /\ UNCHANGED <<cmds, cols, newTab, pc, rows, r, cellIdx, i, j, out, term, focus,
                   hsplits>>

ReplayWriteText ==
    /\ Replaying("WriteText")
    /\ term' = TermWriteText(term, focus, out[rp].cmd)
    /\ rp' = rp + 1
    /\ UNCHANGED <<cmds, cols, newTab, pc, rows, r, cellIdx, i, j, out, focus, hsplits>>

ReplayEnd ==
    /\ pc = "replay"
    /\ rp > Len(out)
    /\ pc' = "done"
    /\ UNCHANGED <<cmds, cols, newTab, rows, r, cellIdx, i, j, out, term, focus, rp,
                   hsplits>>

Next ==
    \/ DistAlloc
    \/ DistStep
    \/ DistDone
    \/ TmplNewTab
    \/ TmplColsStep
    \/ TmplColsEnd
    \/ TmplLayoutEnter
    \/ TmplRowSplit
    \/ TmplRowsEnd
    \/ TmplLayoutEnd
    \/ TmplCmdStep
    \/ TmplCmdsEnd
    \/ ReplayNewTab
    \/ ReplaySplitVertical
    \/ ReplaySplitHorizontal
    \/ ReplayFocusNext
    \/ ReplayDelay
    \/ ReplayWriteText
    \/ ReplayEnd

Spec == Init /\ [][Next]_vars

----------------------------------------------------------------------------
(* Derived quantities *)

Finished == pc \in {"replay", "done"}
Distributed == pc \notin {"start", "dist"}

CountOp(seq, name) == Cardinality({p \in 1..Len(seq) : seq[p].op = name})

ColumnsUsed == IF cols < n THEN cols ELSE n

\* the number of commands assigned to column c
RowsInColumn(c) == Cardinality({k \in 0..(n - 1) : k % cols = c})

RECURSIVE SumExtraRows(_)
SumExtraRows(c) == IF c = 0 THEN 0 ELSE (RowsInColumn(c - 1) - 1) + SumExtraRows(c - 1)

RECURSIVE SumLen(_)
SumLen(s) == IF s = <<>> THEN 0 ELSE Len(Head(s)) + SumLen(Tail(s))

RECURSIVE SumTyped(_)
SumTyped(t) == IF t = <<>> THEN 0 ELSE SumLen(Head(t)) + SumTyped(Tail(t))

IsWrite(o) == o.op = "WriteText"
WrittenCmds == [p \in 1..Len(SelectSeq(out, IsWrite)) |-> SelectSeq(out, IsWrite)[p].cmd]

HasPane(c, w) == c + 1 <= Len(term) /\ w + 1 <= Len(term[c + 1])

Ranked(o) == o.op \in {"NewTab", "SplitVertical", "SplitHorizontal", "WriteText"}

Rank(o) ==
    CASE o.op = "NewTab" -> 0
      [] o.op = "SplitVertical" -> 1
      [] o.op = "SplitHorizontal" -> 2 + o.col
      [] o.op = "WriteText" -> 2 + cols
      [] OTHER -> -1

----------------------------------------------------------------------------
(* Claims *)

\* C1: for n >= 1, once the whole script has been replayed, command i has
\* been typed into the pane at column i mod cols, row i div cols, that pane
\* holds nothing else, no pane holds two commands, and n commands were typed
\* in total.
C1_EachCommandInItsCell ==
    (pc = "done" /\ n >= 1) =>
        /\ \A k \in 0..(n - 1) :
              /\ HasPane(k % cols, k \div cols)
              /\ term[(k % cols) + 1][(k \div cols) + 1] = <<cmds[k + 1]>>
        /\ \A c \in 1..Len(term) : \A w \in 1..Len(term[c]) : Len(term[c][w]) <= 1
        /\ SumTyped(term) = n

\* C2: for n >= 1, after all splits have been replayed the terminal has
\* columns_used columns, column c has as many panes as commands are assigned
\* to it, and every horizontal split emitted for column c was applied to a
\* pane of column c.
C2_SplitsBuildTheGrid ==
    (pc = "done" /\ n >= 1) =>
        /\ Len(term) = ColumnsUsed
        /\ \A c \in 0..(ColumnsUsed - 1) : Len(term[c + 1]) = RowsInColumn(c)
        /\ \A p \in 1..Len(hsplits) : hsplits[p].built = hsplits[p].at

\* C3: for n >= 1, the number of splits in the generated script is
\* (columns_used - 1) + the sum over columns of (rows_in_column - 1).
C3_SplitCount ==
    (Finished /\ n >= 1) =>
        CountOp(out, "SplitVertical") + CountOp(out, "SplitHorizontal")
            = (ColumnsUsed - 1) + SumExtraRows(ColumnsUsed)

\* C4: the WriteText operations emitted so far carry a prefix of the input
\* commands in input order, and a generated script carries exactly the
\* input commands, in order.
C4_WritesAreTheCommands ==
    /\ Len(WrittenCmds) <= n
    /\ WrittenCmds = SubSeq(cmds, 1, Len(WrittenCmds))
    /\ Finished => WrittenCmds = cmds

C4_Witness ==
    /\ pc = "done"
    /\ n >= 3
    /\ cmds[1] # cmds[2]
    /\ cmds[2] = cmds[3]
    /\ CountOp(out, "WriteText") = n

\* C5: when cols > n >= 1 the layout has exactly n columns, none of them
\* empty, and the script has exactly n - 1 vertical splits.
C5_ColumnsClamped ==
    (Distributed /\ cols > n /\ n >= 1) =>
        /\ Len(r) = n
        /\ \A c \in 1..Len(r) : \E w \in 1..Len(r[c]) : cellIdx[c][w] # {}
        /\ Finished => CountOp(out, "SplitVertical") = n - 1

\* C6: for an empty command list the generation does not fail, and the
\* generated script has no split and no WriteText.
C6_EmptyInputGenerates ==
    (n = 0) =>
        /\ pc # "error"
        /\ Finished => \A p \in 1..Len(out) :
              out[p].op \notin {"SplitVertical", "SplitHorizontal", "WriteText"}

\* C7: rows is ceil(n / cols); every command index i is stored in the cell
\* (i mod cols, i div cols), which lies inside the allocated grid and holds
\* command i, and no cell is stored into by two command indices.
C7_CellOfEachCommand ==
    Distributed =>
        /\ rows * cols >= n
        /\ (rows > 0 => (rows - 1) * cols < n)
        /\ Len(r) = cols
        /\ \A c \in 1..cols : Len(r[c]) = rows
        /\ \A k \in 0..(n - 1) :
              /\ k % cols < cols
              /\ k \div cols < rows
              /\ k \in cellIdx[(k % cols) + 1][(k \div cols) + 1]
              /\ r[(k % cols) + 1][(k \div cols) + 1] = cmds[k + 1]
        /\ \A c \in 1..cols : \A w \in 1..rows : Cardinality(cellIdx[c][w]) <= 1

C7_Witness ==
    /\ pc = "t_newtab"
    /\ n = 5
    /\ cols = 2
    /\ rows = 3
    /\ r[1] = <<cmds[1], cmds[3], cmds[5]>>
    /\ r[2][1] = cmds[2]
    /\ r[2][2] = cmds[4]

\* C8: the layout has exactly one cell per command: the number of cells
\* over all columns is n.
C8_OneCellPerCommand ==
    Distributed => SumLen(r) = n

\* C9: in the emitted sequence NewTab can only be first, every vertical
\* split precedes every horizontal split, horizontal splits come column by
\* column in increasing column index, and no split follows a WriteText.
C9_PhasesInOrder ==
    /\ \A p \in 1..Len(out) : out[p].op = "NewTab" => p = 1
    /\ \A p \in 1..Len(out) : \A q \in p..Len(out) :
          (Ranked(out[p]) /\ Ranked(out[q])) => Rank(out[p]) <= Rank(out[q])

C9_Witness ==
    /\ pc = "done"
    /\ out[1].op = "NewTab"
    /\ CountOp(out, "SplitVertical") >= 1
    /\ \E p \in 1..Len(out) : out[p].op = "SplitHorizontal" /\ out[p].col = 0
    /\ \E p \in 1..Len(out) : out[p].op = "SplitHorizontal" /\ out[p].col = 1
    /\ CountOp(out, "WriteText") >= 2

\* C10: for n >= 1, focus is on the first pane (column 0, row 0) when the
\* first WriteText is replayed, and in the script every WriteText is
\* followed by exactly one FocusNext.
C10_FirstWriteOnFirstPane ==
    /\ (Replaying("WriteText") /\ \A p \in 1..(rp - 1) : out[p].op # "WriteText")
          => focus = <<1, 1>>
    /\ Finished => \A p \in 1..Len(out) : out[p].op = "WriteText" =>
          /\ p + 1 <= Len(out)
          /\ out[p + 1].op = "FocusNext"
          /\ p + 2 <= Len(out) => out[p + 2].op # "FocusNext"

====
